---- MODULE Spec2Model ----
(***************************************************************************)
(* Model of texpy.quaternion.symmetry (point groups built by generator     *)
(* closure), with the Rotation, Vector3d and SphericalRegion operations    *)
(* it and its tests rely on.                                               *)
(*                                                                         *)
(* Numbers.  Every quaternion component that the module's literals and     *)
(* their products can take lies in the ring Z[sqrt2, sqrt3][1/2].  A       *)
(* number n1 + n2*sqrt2 + n3*sqrt3 + n6*sqrt6 is the tuple                 *)
(* <<n1, n2, n3, n6>>; a quaternion is <<k, a, b, c, d>> and stands for    *)
(* (a, b, c, d) / 2^k, with k the least exponent that keeps all sixteen    *)
(* coefficients integral.  The arithmetic is exact, so "equal within       *)
(* tolerance" is equality of the reduced forms.                            *)
(*                                                                         *)
(* A row of a Rotation is <<q, improper>>; the data of a Rotation or a     *)
(* Symmetry is the set of its rows (no operation modelled here depends on  *)
(* row order).  Two rows <<q, i>> and <<-q, i>> are different rows of the  *)
(* data and the same transformation.                                       *)
(***************************************************************************)
EXTENDS Integers, Sequences, FiniteSets, TLC

\* ---------------------------------------------------------------- numbers

Zero == <<0, 0, 0, 0>>
One == <<1, 0, 0, 0>>
MinusOne == <<-1, 0, 0, 0>>
Sqrt2 == <<0, 1, 0, 0>>
Sqrt3 == <<0, 0, 1, 0>>

RAdd(x, y) == <<x[1] + y[1], x[2] + y[2], x[3] + y[3], x[4] + y[4]>>

RNeg(x) == <<-x[1], -x[2], -x[3], -x[4]>>

RSub(x, y) == <<x[1] - y[1], x[2] - y[2], x[3] - y[3], x[4] - y[4]>>

RMul(x, y) ==
    << x[1]*y[1] + 2*x[2]*y[2] + 3*x[3]*y[3] + 6*x[4]*y[4],
       x[1]*y[2] + x[2]*y[1] + 3*(x[3]*y[4] + x[4]*y[3]),
       x[1]*y[3] + x[3]*y[1] + 2*(x[2]*y[4] + x[4]*y[2]),
       x[1]*y[4] + x[4]*y[1] + x[2]*y[3] + x[3]*y[2] >>

REven(x) == x[1] % 2 = 0 /\ x[2] % 2 = 0 /\ x[3] % 2 = 0 /\ x[4] % 2 = 0

RHalf(x) == <<x[1] \div 2, x[2] \div 2, x[3] \div 2, x[4] \div 2>>

\* ------------------------------------------------------------ quaternions

RECURSIVE Reduce(_)
Reduce(q) ==
    IF q[1] > 0 /\ REven(q[2]) /\ REven(q[3]) /\ REven(q[4]) /\ REven(q[5])
    THEN Reduce(<<q[1] - 1, RHalf(q[2]), RHalf(q[3]), RHalf(q[4]), RHalf(q[5])>>)
    ELSE q

\* Hamilton product.
QMul(p, q) ==
    Reduce(<< p[1] + q[1],
       RSub(RSub(RSub(RMul(p[2], q[2]), RMul(p[3], q[3])), RMul(p[4], q[4])), RMul(p[5], q[5])),
       RAdd(RAdd(RMul(p[2], q[3]), RMul(p[3], q[2])), RSub(RMul(p[4], q[5]), RMul(p[5], q[4]))),
       RAdd(RSub(RMul(p[2], q[4]), RMul(p[3], q[5])), RAdd(RMul(p[4], q[2]), RMul(p[5], q[3]))),
       RAdd(RAdd(RMul(p[2], q[5]), RMul(p[3], q[4])), RSub(RMul(p[5], q[2]), RMul(p[4], q[3]))) >>)

QNeg(q) == <<q[1], RNeg(q[2]), RNeg(q[3]), RNeg(q[4]), RNeg(q[5])>>

\* The sixteen coefficients of q, in order.
Flat(q) == q[2] \o q[3] \o q[4] \o q[5]

\* The sign of the first coefficient of q that is not zero.
LeadSign(q) ==
    LET f == Flat(q)
        nz == {n \in 1..16 : f[n] # 0}
    IN  IF nz = {} THEN 0
        ELSE LET m == CHOOSE n \in nz : \A o \in nz : n <= o
             IN  IF f[m] > 0 THEN 1 ELSE -1


\* ------------------------------------------------- Rotation (rows, flags)

\* r1 * r2: the quaternion product, and improper = r1.improper XOR r2.improper.
RowMul(x, y) == <<QMul(x[1], y[1]), (x[2] + y[2]) % 2>>

\* The fingerprint of one row: q and -q are one rotation, so the sign of q
\* is normalised (first non-zero coefficient positive); the flag is kept.
Differentiator(x) == <<IF LeadSign(x[1]) < 0 THEN QNeg(x[1]) ELSE x[1], x[2]>>

differentiators(rows) == {Differentiator(x) : x \in rows}

\* Every row of a composed with every row of b.  Equal rows of the product
\* are one member of the set; every use is followed by unique().
outer(a, b) == {RowMul(x, y) : x \in a, y \in b}

\* One row of the input per fingerprint: of the two rows <<q, i>>, <<-q, i>>
\* the one with the normal sign is kept when both are present.
unique(rows) ==
    {x \in rows : LeadSign(x[1]) >= 0 \/ <<QNeg(x[1]), x[2]>> \notin rows}

\* ---------------------------------------------------------------- Symmetry

\* A Symmetry object: its rows and its name (the class attribute name = '').
Symmetry(rows) == [data |-> rows, name |-> ""]

Named(s, n) == [s EXCEPT !.name = n]

\* Symmetry([q1, q2, ...]) followed by .improper = [i1, i2, ...].
Rows(qs, flags) == {<<qs[n], flags[n]>> : n \in 1..Len(qs)}

Proper(qs) == Rows(qs, [n \in 1..Len(qs) |-> 0])

order(s) == Cardinality(s.data)

is_proper(s) == \A x \in s.data : x[2] = 0

_tuples(s) == differentiators(s.data)

\* The physical upper bound on the order of a point group.
MaxOrder == 48

\* generator = cls((1, 0, 0, 0))
QIdentity == <<0, One, Zero, Zero, Zero>>

InitialGeneratorImproper == Rows(<<QIdentity>>, <<1>>)

InitialGenerator == Proper(<<QIdentity>>)

\* generator = generator.outer(Symmetry(g)).unique()
FoldStep(generator, g) == unique(outer(generator, Symmetry(g.data).data))

WhileCondInverted(size, size_new) == size_new # size /\ size_new > MaxOrder

WhileCondWideCap(size, size_new) == size_new # size /\ size_new < 10 * MaxOrder

\* while size_new != size and size_new < 48
WhileCond(size, size_new) == size_new # size /\ size_new < MaxOrder

WhileBodyNoUnique(generator) == outer(generator, generator)

WhileBodyElementwise(generator) == unique({RowMul(x, x) : x \in generator})

\* generator = generator.outer(generator).unique()
WhileBody(generator) == unique(outer(generator, generator))

RECURSIVE Fold(_, _, _)
Fold(generator, gens, n) ==
    IF n > Len(gens) THEN generator
    ELSE Fold(FoldStep(generator, gens[n]), gens, n + 1)

RECURSIVE While(_, _, _)
While(generator, size, size_new) ==
    IF WhileCond(size, size_new)
    THEN LET next == WhileBody(generator)
         IN  While(next, size_new, Cardinality(next))
    ELSE generator

\* Symmetry.from_generators(*generators), run to completion.
from_generators(gens) ==
    LET folded == Fold(InitialGenerator, gens, 1)
    IN  Symmetry(While(folded, 1, Cardinality(folded)))

\* -------------------------------------------------- the module's constants

C1 == Named(Symmetry(Proper(<<QIdentity>>)), "1")
Ci == Named(Symmetry(Rows(<<QIdentity, QIdentity>>, <<0, 1>>)), "-1")

\* (0, 0.75**0.5, -0.75**0.5, 0) is stored normalised: (0, sqrt2/2, -sqrt2/2, 0).
_mirror_xy == Symmetry(Rows(<<QIdentity, <<1, Zero, Sqrt2, RNeg(Sqrt2), Zero>> >>, <<0, 1>>))
_cubic == Symmetry(Proper(<<QIdentity, <<1, One, One, One, One>> >>))

QX == <<0, Zero, One, Zero, Zero>>
QY == <<0, Zero, Zero, One, Zero>>
QZ == <<0, Zero, Zero, Zero, One>>

C2x == Named(Symmetry(Proper(<<QIdentity, QX>>)), "211")
C2y == Named(Symmetry(Proper(<<QIdentity, QY>>)), "121")
C2z == Named(Symmetry(Proper(<<QIdentity, QZ>>)), "112")
C2 == Named(Symmetry(C2z.data), "2")

Csx == Named(Symmetry(Rows(<<QIdentity, QX>>, <<0, 1>>)), "m11")
Csy == Named(Symmetry(Rows(<<QIdentity, QY>>, <<0, 1>>)), "1m1")
Csz == Named(Symmetry(Rows(<<QIdentity, QZ>>, <<0, 1>>)), "11m")
Cs == Named(Symmetry(Csz.data), "m")

C2h == Named(from_generators(<<C2, Cs>>), "2/m")

D2 == Named(from_generators(<<C2z, C2x, C2y>>), "222")
C2v == Named(from_generators(<<C2x, Csz>>), "mm2")
D2h == Named(from_generators(<<Csz, Csx, Csy>>), "mmm")

C4x == Symmetry(Proper(<< QIdentity, <<1, Sqrt2, Sqrt2, Zero, Zero>>, QX,
                          <<1, RNeg(Sqrt2), Sqrt2, Zero, Zero>> >>))
C4y == Symmetry(Proper(<< QIdentity, <<1, Sqrt2, Zero, Sqrt2, Zero>>, QY,
                          <<1, RNeg(Sqrt2), Zero, Sqrt2, Zero>> >>))
C4z == Symmetry(Proper(<< QIdentity, <<1, Sqrt2, Zero, Zero, Sqrt2>>, QZ,
                          <<1, RNeg(Sqrt2), Zero, Zero, Sqrt2>> >>))
C4 == Named(Symmetry(C4z.data), "4")

S4 == Named(from_generators(<<C2, Ci>>), "-4")
C4h == Named(from_generators(<<C4, Cs>>), "4/m")
D4 == Named(from_generators(<<C4, C2x, C2y>>), "422")
C4v == Named(from_generators(<<C4, Csx>>), "4mm")
D2d == Named(from_generators(<<D2, _mirror_xy>>), "-42m")
D4h == Named(from_generators(<<C4h, Csx, Csy>>), "4/mmm")

C3x == Symmetry(Proper(<< QIdentity, <<1, One, Sqrt3, Zero, Zero>>,
                          <<1, MinusOne, Sqrt3, Zero, Zero>> >>))
C3y == Symmetry(Proper(<< QIdentity, <<1, One, Zero, Sqrt3, Zero>>,
                          <<1, MinusOne, Zero, Sqrt3, Zero>> >>))
C3z == Symmetry(Proper(<< QIdentity, <<1, One, Zero, Zero, Sqrt3>>,
                          <<1, MinusOne, Zero, Zero, Sqrt3>> >>))
C3 == Named(Symmetry(C3z.data), "3")

S6 == Named(from_generators(<<C3, Ci>>), "-3")
D3 == Named(from_generators(<<C3, C2x>>), "32")
C3v == Named(from_generators(<<C3, Csx>>), "3m")
D3d == Named(from_generators(<<S6, Csx>>), "-3m")

C6 == Named(from_generators(<<C3, C2>>), "6")
C3h == Named(from_generators(<<C3, Cs>>), "-6")
C6h == Named(from_generators(<<C6, Cs>>), "6/m")
D6 == Named(from_generators(<<C6, C2x, C2y>>), "622")
C6v == Named(from_generators(<<C6, Csx>>), "6mm")
D3h == Named(from_generators(<<C3h, Csx, C2y>>), "-6m2")
D6h == Named(from_generators(<<C6h, Csx, Csy>>), "6/mmm")

T == Named(from_generators(<<C2, _cubic>>), "23")
Th == Named(from_generators(<<T, Ci>>), "m-3")
O == Named(from_generators(<<C4, _cubic, C2x>>), "432")
Td == Named(from_generators(<<T, _mirror_xy>>), "-43m")
Oh == Named(from_generators(<<O, Ci>>), "m-3m")

\* _groups
Registry ==
    << C1, Ci,
       C2x, C2y, C2z, Csx, Csy, Csz, C2h,
       D2, C2v, D2h,
       C4, S4, C4h, D4, C4v, D2d, D4h,
       C3, S6, D3, C3v, D3d,
       C6, C3h, C6h, D6, C6v, D3h, D6h,
       T, Th, O, Td, Oh >>

\* ------------------------------------------------ registry look-ups

\* A registry object is named by its position in _groups; a list of registry
\* objects is the sequence of their positions.
Positions(g) == [n \in 1..Len(g) |-> n]

InList(x, list) == \E n \in 1..Len(list) : list[n] = x

\* s.subgroups: [g for g in _groups if g._tuples <= s._tuples]
subgroups(g, s) ==
    LET ts == _tuples(s)
        Keep(m) == _tuples(g[m]) \subseteq ts
    IN  SelectSeq(Positions(g), Keep)

\* s.proper_subgroups: [g for g in s.subgroups if g.is_proper]
proper_subgroups(g, s) ==
    LET Keep(m) == is_proper(g[m])
    IN  SelectSeq(subgroups(g, s), Keep)

\* s.proper_subgroup: sorted(subgroups, key=order)[-1].  sorted is stable, so
\* the last entry is the one of greatest order that stands latest in the list.
proper_subgroup(g, s) ==
    LET subs == proper_subgroups(g, s)
        best == CHOOSE m \in 1..Len(subs) :
                    \A o \in 1..Len(subs) :
                        \/ order(g[subs[o]]) < order(g[subs[m]])
                        \/ order(g[subs[o]]) = order(g[subs[m]]) /\ o <= m
    IN  subs[best]

\* s.contains_inversion: Ci._tuples <= s._tuples
contains_inversion(s) == _tuples(Ci) \subseteq _tuples(s)

\* a & b: the generators handed to from_generators,
\* [g for g in a.subgroups if g in b.subgroups].
AndGenerators(g, a, b) ==
    LET bs == subgroups(g, b)
        Keep(m) == InList(m, bs)
    IN  SelectSeq(subgroups(g, a), Keep)

Deref(g, list) == [n \in 1..Len(list) |-> g[list[n]]]

\* What an operation leaves of the registry: no statement of the class
\* assigns to an attribute of self, of other or of a generator, and none
\* assigns to _groups; every operation builds new objects.
RegistryAfterInPlace(g, target, rows) ==
    IF target = 0 THEN g ELSE [g EXCEPT ![target].data = rows]

RegistryAfter(g, target, rows) == g

\* ------------------------------------------------ Vector3d, SphericalRegion

\* A Vector3d is its shape (the leading dimensions) and its vectors in
\* row-major order; a Scalar is a shape and its numbers in row-major order.
\* Coordinates are integers, in tenths.
RECURSIVE Product(_)
Product(shape) == IF shape = <<>> THEN 1 ELSE Head(shape) * Product(Tail(shape))

Vector3d(shape, data) == [shape |-> shape, data |-> data]

\* np.ndindex(shape): every index tuple of an array of that shape.
RECURSIVE NdIndex(_)
NdIndex(shape) ==
    IF shape = <<>> THEN {<<>>}
    ELSE {<<m>> \o rest : m \in 1..Head(shape), rest \in NdIndex(Tail(shape))}

\* The row-major position of index tuple i in an array of the given shape.
RECURSIVE Position(_, _)
Position(shape, i) ==
    IF shape = <<>> THEN 1
    ELSE (Head(i) - 1) * Product(Tail(shape)) + Position(Tail(shape), Tail(i))

\* v[i]
Item(v, i) == v.data[Position(v.shape, i)]

\* a.dot(b) for two single vectors.
dot(a, b) == a[1] * b[1] + a[2] * b[2] + a[3] * b[3]

dot_outer_transposed(v, w) ==
    LET m == Product(v.shape)
        k == Product(w.shape)
    IN  [shape |-> v.shape \o w.shape,
         data |-> [c \in 1..(m * k) |->
                     dot(v.data[((c - 1) % m) + 1], w.data[((c - 1) \div m) + 1])]]

\* v.dot_outer(w): the dot products of every vector of v with every vector
\* of w, contracted over the last axis and laid out with the shape of v
\* followed by the shape of w.
dot_outer(v, w) ==
    LET m == Product(v.shape)
        k == Product(w.shape)
    IN  [shape |-> v.shape \o w.shape,
         data |-> [c \in 1..(m * k) |->
                     dot(v.data[((c - 1) \div k) + 1], w.data[((c - 1) % k) + 1])]]

contains_all_axes(region, v) ==
    LET d == dot_outer(region, v)
    IN  [shape |-> v.shape,
         data |-> [c \in 1..Product(v.shape) |->
                     \A e \in 1..Len(d.data) : d.data[e] >= 0]]

\* region.contains(v): for each direction of v, whether its dot product with
\* every normal of the region is >= -tolerance.  The dot products here are
\* whole hundredths and the tolerance is far below one hundredth, so the
\* test is >= 0.
contains(region, v) ==
    LET d == dot_outer(region, v)
        k == Product(v.shape)
    IN  [shape |-> v.shape,
         data |-> [c \in 1..k |->
                     \A e \in 1..Product(region.shape) : d.data[(e - 1) * k + c] >= 0]]

\* ------------------------------------------------------------------ inputs

\* A rotation given without the identity: the 2-fold axis of C2x alone.
Lone == Symmetry(Proper(<<QX>>))

\* The generators from_generators is called with directly.
GeneratorPool == {Ci, C2x, Csz, C3z, C4z, _cubic, _mirror_xy, C3x, Lone}

MaxGenerators == 2

RECURSIVE SeqsUpTo(_, _)
SeqsUpTo(S, len) ==
    IF len = 0 THEN {<<>>}
    ELSE LET shorter == SeqsUpTo(S, len - 1)
         IN  shorter \cup {Append(q, x) : q \in shorter, x \in S}

GeneratorLists == SeqsUpTo(GeneratorPool, MaxGenerators)

\* The largest number of vectors in one Vector3d operand of dot_outer.
MaxSize == 4

\* The largest number of directions handed to contains at once.
MaxDirections == 2

\* The shapes of at most two dimensions that hold exactly count vectors.
ShapesOfSize(count) ==
    {<<count>>} \cup {sh \in (1..count) \X (1..count) : sh[1] * sh[2] = count}

RECURSIVE SeqsOfLen(_, _)
SeqsOfLen(S, len) ==
    IF len = 0 THEN {<<>>}
    ELSE {Append(q, x) : q \in SeqsOfLen(S, len - 1), x \in S}

\* Every Vector3d of at most max vectors drawn from triples: a single vector
\* (shape ()), and every shape of one or two dimensions.
VectorsOver(triples, max) ==
    {Vector3d(<<>>, <<t>>) : t \in triples} \cup
    UNION {{Vector3d(sh, d) : sh \in ShapesOfSize(c), d \in SeqsOfLen(triples, c)} : c \in 1..max}

DotOuterOperands == VectorsOver({<<1, -1, 1>>, <<-5, -5, -6>>}, MaxSize)

\* [0.1, 0.1, 0.1], [1, 1, 1] and [0.1, -0.1, 0.1]
Directions == VectorsOver({<<1, 1, 1>>, <<10, 10, 10>>, <<1, -1, 1>>}, MaxDirections)

\* SphericalRegion([[0, 0, 1], [0, 1, 0], [1, 0, 0]]), and the regions of
\* '2' and '222'.
Regions ==
    { Vector3d(<<3>>, << <<0, 0, 10>>, <<0, 10, 0>>, <<10, 0, 0>> >>),
      Vector3d(<<1>>, << <<0, 0, 10>> >>),
      Vector3d(<<2>>, << <<-10, 0, 0>>, <<0, 0, 10>> >>) }

NoValue == [kind |-> "none"]

\* ------------------------------------------------------------------- state

VARIABLES
    _groups,      \* the registry of named point groups
    pc,           \* "idle", "for", "while", "done"
    op,           \* the operation in progress or just returned
    self,         \* registry position of the operand (0: none)
    other,        \* registry position of the right operand of & (0: none)
    generators,   \* from_generators: the argument list
    n,            \* from_generators: position of the for loop
    generator,    \* from_generators: rows of the local generator
    size,         \* from_generators: local size
    size_new,     \* from_generators: local size_new
    iters,        \* number of iterations of the while loop so far
    ret,          \* the value returned to the caller
    vop,          \* the vector operation just evaluated ("none": none)
    vself,        \* its receiver: a Vector3d or a SphericalRegion
    varg,         \* its argument
    vret          \* its result

symvars == <<_groups, pc, op, self, other, generators, n, generator, size, size_new, iters, ret>>

vecvars == <<vop, vself, varg, vret>>

vars == <<symvars, vecvars>>

locals == <<generators, n, generator, size, size_new, iters>>

Init ==
    /\ _groups = Registry
    /\ pc = "idle"
    /\ op = "none"
    /\ self = 0
    /\ other = 0
    /\ generators = <<>>
    /\ n = 0
    /\ generator = {}
    /\ size = 0
    /\ size_new = 0
    /\ iters = 0
    /\ ret = NoValue
    /\ vop = "none"
    /\ vself = NoValue
    /\ varg = NoValue
    /\ vret = NoValue

\* Entry of from_generators: generator = cls((1, 0, 0, 0)).
Enter(gens) ==
    /\ pc' = "for"
    /\ generators' = gens
    /\ n' = 1
    /\ generator' = InitialGenerator
    /\ size' = 0
    /\ size_new' = 0
    /\ iters' = 0
    /\ ret' = NoValue
    /\ UNCHANGED <<_groups, vecvars>>

\* Symmetry.from_generators(*gens)
CallFromGenerators ==
    /\ pc = "idle"
    /\ \E gens \in GeneratorLists :
        /\ op' = "from_generators"
        /\ self' = 0
        /\ other' = 0
        /\ Enter(gens)

\* a & b
CallAnd ==
    /\ pc = "idle"
    /\ \E a \in 1..Len(_groups), b \in 1..Len(_groups) :
        /\ op' = "and"
        /\ self' = a
        /\ other' = b
        /\ Enter(Deref(_groups, AndGenerators(_groups, _groups[a], _groups[b])))

\* a.proper_inversion_subgroup: from_generators(a, Ci), then .proper_subgroup
CallProperInversionSubgroup ==
    /\ pc = "idle"
    /\ \E a \in 1..Len(_groups) :
        /\ op' = "proper_inversion_subgroup"
        /\ self' = a
        /\ other' = 0
        /\ Enter(<<_groups[a], Ci>>)

\* for g in generators: generator = generator.outer(Symmetry(g)).unique()
ForStep ==
    /\ pc = "for"
    /\ n <= Len(generators)
    /\ generator' = FoldStep(generator, generators[n])
    /\ n' = n + 1
    /\ _groups' = RegistryAfter(_groups, self, generator')
    /\ UNCHANGED <<pc, op, self, other, generators, size, size_new, iters, ret, vecvars>>

\* size = 1; size_new = generator.size
ForExit ==
    /\ pc = "for"
    /\ n > Len(generators)
    /\ pc' = "while"
    /\ size' = 1
    /\ size_new' = Cardinality(generator)
    /\ UNCHANGED <<_groups, op, self, other, generators, n, generator, iters, ret, vecvars>>

\* One iteration of the while loop.
WhileStep ==
    /\ pc = "while"
    /\ WhileCond(size, size_new)
    /\ size' = size_new
    /\ generator' = WhileBody(generator)
    /\ size_new' = Cardinality(generator')
    /\ iters' = iters + 1
    /\ _groups' = RegistryAfter(_groups, self, generator')
    /\ UNCHANGED <<pc, op, self, other, generators, n, ret, vecvars>>

\* return generator (and, for proper_inversion_subgroup, its .proper_subgroup)
Return ==
    /\ pc = "while"
    /\ ~WhileCond(size, size_new)
    /\ pc' = "done"
    /\ ret' = IF op = "proper_inversion_subgroup"
              THEN [kind |-> "group", val |-> proper_subgroup(_groups, Symmetry(generator))]
              ELSE [kind |-> "Symmetry", val |-> Symmetry(generator)]
    /\ UNCHANGED <<_groups, op, self, other, locals, vecvars>>

\* The properties that are computed in one step.
Finish(name, a, value) ==
    /\ pc' = "done"
    /\ op' = name
    /\ self' = a
    /\ other' = 0
    /\ ret' = value
    /\ _groups' = RegistryAfter(_groups, a, _groups[a].data)
    /\ UNCHANGED <<locals, vecvars>>

ReadSubgroups ==
    /\ pc = "idle"
    /\ \E a \in 1..Len(_groups) :
        Finish("subgroups", a, [kind |-> "list", val |-> subgroups(_groups, _groups[a])])

ReadProperSubgroups ==
    /\ pc = "idle"
    /\ \E a \in 1..Len(_groups) :
        Finish("proper_subgroups", a,
               [kind |-> "list", val |-> proper_subgroups(_groups, _groups[a])])

ReadProperSubgroup ==
    /\ pc = "idle"
    /\ \E a \in 1..Len(_groups) :
        Finish("proper_subgroup", a,
               [kind |-> "group", val |-> proper_subgroup(_groups, _groups[a])])

ReadContainsInversion ==
    /\ pc = "idle"
    /\ \E a \in 1..Len(_groups) :
        Finish("contains_inversion", a,
               [kind |-> "bool", val |-> contains_inversion(_groups[a])])

ReadOrder ==
    /\ pc = "idle"
    /\ \E a \in 1..Len(_groups) :
        Finish("order", a, [kind |-> "int", val |-> order(_groups[a])])

ReadIsProper ==
    /\ pc = "idle"
    /\ \E a \in 1..Len(_groups) :
        Finish("is_proper", a, [kind |-> "bool", val |-> is_proper(_groups[a])])

\* The caller drops the result; the next operation starts from scratch.
Drop ==
    /\ pc = "done"
    /\ pc' = "idle"
    /\ op' = "none"
    /\ self' = 0
    /\ other' = 0
    /\ generators' = <<>>
    /\ n' = 0
    /\ generator' = {}
    /\ size' = 0
    /\ size_new' = 0
    /\ iters' = 0
    /\ ret' = NoValue
    /\ UNCHANGED <<_groups, vecvars>>

Next ==
    \/ CallFromGenerators
    \/ CallAnd
    \/ CallProperInversionSubgroup
    \/ ForStep
    \/ ForExit
    \/ WhileStep
    \/ Return
    \/ ReadSubgroups
    \/ ReadProperSubgroups
    \/ ReadProperSubgroup
    \/ ReadContainsInversion
    \/ ReadOrder
    \/ ReadIsProper
    \/ Drop

Spec == Init /\ [][Next]_vars

\* v.dot_outer(w)
CallDotOuter ==
    /\ vop = "none"
    /\ \E v \in DotOuterOperands, w \in DotOuterOperands :
        /\ vop' = "dot_outer"
        /\ vself' = v
        /\ varg' = w
        /\ vret' = dot_outer(v, w)
    /\ UNCHANGED symvars

\* region.contains(v)
CallContains ==
    /\ vop = "none"
    /\ \E r \in Regions, v \in Directions :
        /\ vop' = "contains"
        /\ vself' = r
        /\ varg' = v
        /\ vret' = contains(r, v)
    /\ UNCHANGED symvars

\* The caller drops the result.
VectorDrop ==
    /\ vop # "none"
    /\ vop' = "none"
    /\ vself' = NoValue
    /\ varg' = NoValue
    /\ vret' = NoValue
    /\ UNCHANGED symvars

VectorNext ==
    \/ CallDotOuter
    \/ CallContains
    \/ VectorDrop

VectorSpec == Init /\ [][VectorNext]_vars


\* ------------------------------------------------------------- properties

\* from_generators has returned: generators holds its arguments and
\* generator the rows it returned.
FromGeneratorsDone ==
    /\ pc = "done"
    /\ op \in {"from_generators", "and", "proper_inversion_subgroup"}

IdentityTuple == Differentiator(<<QIdentity, 0>>)

HasIdentity(s) == IdentityTuple \in _tuples(s)

AllHaveIdentity(gens) == \A m \in 1..Len(gens) : HasIdentity(gens[m])

AllProper(gens) == \A m \in 1..Len(gens) : is_proper(gens[m])

GeneratorTuples(gens) == UNION {_tuples(gens[m]) : m \in 1..Len(gens)}

\* The least set of transformations that holds the identity and is closed
\* under composition with the rows R, built one layer at a time and given up
\* once it has more than MaxOrder members.
RECURSIVE Closure(_, _)
Closure(G, R) ==
    LET next == G \cup {Differentiator(RowMul(x, r)) : x \in G, r \in R}
    IN  IF next = G \/ Cardinality(next) > MaxOrder THEN next ELSE Closure(next, R)

GeneratedGroup(gens) == Closure({IdentityTuple}, GeneratorTuples(gens))

FiniteCase(gens) ==
    /\ AllHaveIdentity(gens)
    /\ Cardinality(GeneratedGroup(gens)) <= MaxOrder

Closed(rows) ==
    LET ts == differentiators(rows)
    IN  \A x \in rows, y \in rows : Differentiator(RowMul(x, y)) \in ts

\* C1 (as stated): whatever the generators, the rows from_generators returns
\* are closed under composition.
ClosureOfAnyResult == FromGeneratorsDone => Closed(generator)

\* C1 (amended): when every generator contains the identity and the group
\* they generate has at most 48 elements, the rows from_generators returns
\* are closed under composition.
ClosureOfGeneratedGroups ==
    (FromGeneratorsDone /\ FiniteCase(generators)) => Closed(generator)

ClosureWitness ==
    /\ FromGeneratorsDone
    /\ FiniteCase(generators)
    /\ iters >= 2
    /\ Cardinality(generator) >= 12
    /\ Closed(generator)

\* C2: when every generator contains the identity and the group they generate
\* has at most 48 elements, from_generators returns exactly that group: every
\* element of it, nothing else, and no transformation twice.
ExactlyTheGeneratedGroup ==
    (FromGeneratorsDone /\ FiniteCase(generators)) =>
        /\ differentiators(generator) = GeneratedGroup(generators)
        /\ Cardinality(generator) = Cardinality(differentiators(generator))

ExactWitness ==
    /\ FromGeneratorsDone
    /\ op = "from_generators"
    /\ Len(generators) = 2
    /\ FiniteCase(generators)
    /\ Cardinality(GeneratedGroup(generators)) = 24
    /\ differentiators(generator) = GeneratedGroup(generators)

\* C3: a & b is the intersection of a and b: its elements are exactly the
\* elements that belong to both.
AndIsIntersection ==
    (pc = "done" /\ op = "and") =>
        _tuples(ret.val) = _tuples(_groups[self]) \cap _tuples(_groups[other])

FromGeneratorsTerminates ==
    /\ (pc \in {"while", "done"} /\ iters >= 1) =>
            /\ size <= size_new
            /\ size < MaxOrder
            /\ iters <= size
    /\ FromGeneratorsDone => (size_new = size \/ size_new >= MaxOrder)
    /\ pc = "for" => n <= Len(generators) + 1

TerminationWitness ==
    /\ pc = "done"
    /\ op = "from_generators"
    /\ iters >= 2
    /\ size >= 12
    /\ size_new = size

\* C8 (as stated): whatever the generators, the returned Symmetry has at
\* most 48 elements.
ResultAtMostMaxOrder == FromGeneratorsDone => Cardinality(generator) <= MaxOrder

\* C8 (amended): the cap bounds what the loop composes, not what it returns.
\* The returned Symmetry has at most 48 elements when every generator
\* contains the identity and the generated group has at most 48 elements;
\* otherwise it is the fold of the generators when the loop never ran, and
\* else the self-composition of fewer than 48 elements.
CapBoundsTheComposedSet ==
    FromGeneratorsDone =>
        /\ FiniteCase(generators) => Cardinality(generator) <= MaxOrder
        /\ iters = 0 => generator = Fold(InitialGenerator, generators, 1)
        /\ iters >= 1 => size < MaxOrder /\ Cardinality(generator) <= size * size

CapWitness ==
    /\ FromGeneratorsDone
    /\ ~FiniteCase(generators)
    /\ iters >= 1
    /\ Cardinality(generator) > MaxOrder

\* C9: for every group G of the registry, G.proper_subgroup is a proper
\* registry group that holds every proper element of G, so its order is the
\* number of proper elements of G.
ProperSubgroupIsProperPart ==
    (pc = "done" /\ op = "proper_subgroup") =>
        LET G == _groups[self]
            P == _groups[ret.val]
        IN  /\ is_proper(P)
            /\ {t \in _tuples(G) : t[2] = 0} \subseteq _tuples(P)
            /\ order(P) = Cardinality({x \in G.data : x[2] = 0})

\* C10: when every row of every generator is proper, every row of the
\* returned Symmetry is proper; an improper row in the result needs an
\* improper row in some generator.
ProperGeneratorsGiveProperGroup ==
    FromGeneratorsDone =>
        /\ AllProper(generators) => is_proper(Symmetry(generator))
        /\ ~is_proper(Symmetry(generator)) =>
               \E m \in 1..Len(generators) : ~is_proper(generators[m])

ProperWitness ==
    /\ FromGeneratorsDone
    /\ Len(generators) >= 2
    /\ AllProper(generators)
    /\ iters >= 1
    /\ Cardinality(generator) >= 12
    /\ is_proper(Symmetry(generator))

\* C5: contains answers direction by direction: the answer for a direction
\* is true exactly when its dot product with every normal of the region is
\* >= 0, whatever the other directions of the batch are.
ContainsIsPerDirection ==
    vop = "contains" =>
        /\ vret.shape = varg.shape
        /\ \A j \in NdIndex(varg.shape) :
               Item(vret, j) <=>
                   \A i \in NdIndex(vself.shape) : dot(Item(vself, i), Item(varg, j)) >= 0

\* The octant region with the batch [[0.1, -0.1, 0.1], [1, 1, 1]]: the first
\* direction is outside, the second inside.
ContainsWitness ==
    /\ vop = "contains"
    /\ vself.shape = <<3>>
    /\ varg = Vector3d(<<2>>, << <<1, -1, 1>>, <<10, 10, 10>> >>)
    /\ vret.data = <<FALSE, TRUE>>

\* C6: v.dot_outer(w) has the shape of v followed by the shape of w, and its
\* entry at (i, j) is v[i].dot(w[j]) for every index i of v and j of w.
DotOuterIsPairwise ==
    vop = "dot_outer" =>
        /\ vret.shape = vself.shape \o varg.shape
        /\ Len(vret.data) = Product(vret.shape)
        /\ \A i \in NdIndex(vself.shape), j \in NdIndex(varg.shape) :
               Item(vret, i \o j) = dot(Item(vself, i), Item(varg, j))

\* Shapes (2, 2) and (3,) do not broadcast against each other.
DotOuterWitness ==
    /\ vop = "dot_outer"
    /\ vself.shape = <<2, 2>>
    /\ varg.shape = <<3>>
    /\ vret.shape = <<2, 2, 3>>
    /\ \E c \in 1..Len(vret.data) : vret.data[c] # vret.data[1]

====
